---------------------------- MODULE Spec2Model ----------------------------
(***************************************************************************)
(* A model of julian7/configurer: the change-tracking Control              *)
(* (control.go) and the Notifier with its fsnotify watch loop (notify.go). *)
(*                                                                         *)
(* Strings that the code inspects character by character (the entries of   *)
(* Control.changed and the argument of IsChanged) are sequences of         *)
(* one-character strings, so that strings.Join, strings.CutSuffix and      *)
(* strings.HasPrefix are computed, not assumed.                            *)
(***************************************************************************)
EXTENDS Integers, Sequences, FiniteSets, TLC

VARIABLES
    current,    \* Control.current  (control.go:18)
    previous,   \* Control.previous (control.go:19)
    changed,    \* Control.changed  (control.go:14)
    loader,     \* Control.loader (control.go:15): the configurations Load can return
    locked,     \* Control.lock is held (control.go:16)
    services,   \* Notifier.services (notify.go:30)
    aborters,   \* Notifier.aborters (notify.go:31)
    wantdown,   \* Notifier.wantdown (notify.go:33)
    watcher,    \* Notifier.watcher: "nil", "open" or "closed" (notify.go:29)
    looping,    \* the goroutine started at notify.go:101 is running
    events,     \* events pending on watcher.Events
    ctxDone,    \* Notifier.ctx has been canceled
    streams,    \* watcher.Events and watcher.Errors: "open", "events closed",
                \* "errors closed", or "closed" once the watcher is closed
    timers,     \* pending time.AfterFunc retries: their attempt numbers and delays
    last,       \* what the most recent operation did (calls made, value returned)
    hist,       \* history: what has happened so far in the Notifier's lifetime
    pc,         \* per goroutine: its position inside readConfig
    loaded,     \* per goroutine: readConfig's local config, err (control.go:50)
    changelog,  \* per goroutine: readConfig's local changelog (control.go:63)
    seen,       \* the slice an IsChanged running during the current readConfig
                \* ranged over (control.go:107), NotSeen if there was none
    entry,      \* history: Control's fields when the lock was last acquired
    base,       \* history: Control's fields when the current round of reloads began
    rounds,     \* number of rounds of concurrent reloads begun
    frame       \* per goroutine: Notify's range over notif.services, its loop
                \* position and its local err (notify.go:64-65)

vars == <<current, previous, changed, loader, locked, services, aborters, wantdown,
          watcher, looping, events, ctxDone, streams, timers, last, hist,
          pc, loaded, changelog, seen, entry, base, rounds, frame>>

ctrlVars == <<current, previous, changed, loader>>
notifVars == <<services, aborters, wantdown>>
watchVars == <<watcher, looping, events, ctxDone, streams, timers>>
concVars == <<locked, pc, loaded, changelog, seen, entry, base, rounds, frame>>

-----------------------------------------------------------------------------
(* Bounds of the model.                                                    *)

\* Number of entries RegisterServices may have appended in total.
MaxServices == 2
\* Number of entries RegisterAborters may have appended in total.
MaxAborters == 2
\* Capacity of the pending-event queue of the watcher.
MaxEvents == 1
\* Number of AfterFunc retries that may be pending at once.
MaxTimers == 1
\* Rounds of concurrent reloads explored.
MaxRounds == 1

-----------------------------------------------------------------------------
(* Configurations and their structural diff.                               *)

\* The interface value nil (control.go:58).
Nil == [type |-> "nil", val |-> <<>>]

\* The leaves of a configuration, in field order: a path is a sequence of
\* segments, a segment a sequence of characters.  "a", "b.0.c" and "bd".
Leaves == << << <<"a">> >>,
             << <<"b">>, <<"0">>, <<"c">> >>,
             << <<"b", "d">> >> >>

LeafIdx == 1..Len(Leaves)

\* What ConfigLoader.Load can return without an error: a value of the
\* application's configuration type, or a value of another type (which
\* diff.Diff refuses to compare with the first).  Load's contract is a
\* Configuration or an error, so Nil is not among them.
Configs == { [type |-> "Config", val |-> v] : v \in [LeafIdx -> {0, 1}] }
             \cup { [type |-> "Other", val |-> [i \in LeafIdx |-> 0]] }

\* strings.Join(elems, ".")
RECURSIVE Join(_)
Join(elems) ==
    IF Len(elems) = 0 THEN <<>>
    ELSE IF Len(elems) = 1 THEN elems[1]
    ELSE elems[1] \o <<".">> \o Join(Tail(elems))

\* The leaves numbered n..Len(Leaves) on which a and b differ, in field order.
RECURSIVE Differing(_, _, _)
Differing(n, a, b) ==
    IF n > Len(Leaves) THEN <<>>
    ELSE (IF a.val[n] # b.val[n] THEN <<Leaves[n]>> ELSE <<>>)
         \o Differing(n + 1, a, b)

\* diff.Diff(a, b): the paths of the leaves that differ, in field order, or
\* an error when the two values are of different types.
Diff(a, b) ==
    IF a.type # b.type
    THEN [err |-> TRUE, log |-> <<>>]
    ELSE [err |-> FALSE, log |-> Differing(1, a, b)]

-----------------------------------------------------------------------------
(* Control (control.go).                                                   *)

\* An error value is its text and the consumer it came from (0: none).
NoErr == <<"nil", 0>>
ErrLoad == <<"loading configuration: load failed", 0>>

Star == << <<"*">> >>

\* The ChangeSet built at control.go:74-77.
JoinAll(log) == [k \in 1..Len(log) |-> Join(log[k])]

\* ReadConfigResult with the ChangeSet left alone when the diff is empty.
ReadConfigKeepsOnEmpty(st, ld) ==
    IF ld.err THEN [st EXCEPT !.ret = ErrLoad]
    ELSE LET prev == st.current
             cur == ld.config
             d == Diff(prev, cur)
         IN  [current |-> cur, previous |-> prev, ret |-> NoErr,
              changed |-> IF prev = Nil THEN Star
                          ELSE IF d.err THEN st.changed
                          ELSE IF Len(d.log) < 1 THEN st.changed
                          ELSE JoinAll(d.log)]

\* ReadConfigResult with the ChangeSet emptied before Load is called.
ReadConfigClearsFirst(st, ld) ==
    IF ld.err THEN [st EXCEPT !.ret = ErrLoad, !.changed = <<>>]
    ELSE LET prev == st.current
             cur == ld.config
             d == Diff(prev, cur)
         IN  [current |-> cur, previous |-> prev, ret |-> NoErr,
              changed |-> IF prev = Nil THEN Star
                          ELSE IF d.err THEN st.changed
                          ELSE IF Len(d.log) < 1 THEN <<>>
                          ELSE JoinAll(d.log)]

\* readConfig (control.go:46-81) run without interruption on Control state
\* st = [current, previous, changed], where Load returned ld = [err, config].
ReadConfigResult(st, ld) ==
    IF ld.err THEN [st EXCEPT !.ret = ErrLoad]
    ELSE LET prev == st.current
             cur == ld.config
             d == Diff(prev, cur)
         IN  [current |-> cur, previous |-> prev, ret |-> NoErr,
              changed |-> IF prev = Nil THEN Star
                          ELSE IF d.err THEN st.changed
                          ELSE IF Len(d.log) < 1 THEN <<>>
                          ELSE JoinAll(d.log)]

\* The fields of a Control before New's first readConfig (control.go:34-37).
Zero == [current |-> Nil, previous |-> Nil, changed |-> <<>>, ret |-> NoErr]

\* Load returning configuration c.
Ok(c) == [err |-> FALSE, config |-> c]

CtrlState == [current |-> current, previous |-> previous, changed |-> changed,
              ret |-> NoErr]

\* What Load may return (control.go:50): an error, or one of the
\* configurations the loader can produce.
Loads == { [err |-> TRUE, config |-> Nil] }
           \cup { [err |-> FALSE, config |-> c] : c \in loader }

\* strings.HasPrefix(s, prefix)
HasPrefix(s, prefix) ==
    /\ Len(s) >= Len(prefix)
    /\ SubSeq(s, 1, Len(prefix)) = prefix

\* strings.CutSuffix(s, ".*"): whether s ends with ".*".
HasStarSuffix(s) ==
    /\ Len(s) >= 2
    /\ SubSeq(s, Len(s) - 1, Len(s)) = <<".", "*">>

\* IsChangedIn without the test for the entry "*".
IsChangedNoStar(chg, item) ==
    LET wild == HasStarSuffix(item)
        pfx == IF wild THEN SubSeq(item, 1, Len(item) - 2) \o <<".">> ELSE item
        op(e) == IF wild THEN HasPrefix(e, pfx) ELSE item = e
    IN  \E k \in 1..Len(chg) : op(chg[k])

\* IsChangedIn with the "." not put back after the suffix ".*" is cut.
IsChangedNoDot(chg, item) ==
    LET wild == HasStarSuffix(item)
        pfx == IF wild THEN SubSeq(item, 1, Len(item) - 2) ELSE item
        op(e) == IF wild THEN HasPrefix(e, pfx) ELSE item = e
    IN  \E k \in 1..Len(chg) : chg[k] = <<"*">> \/ op(chg[k])

\* IsChangedIn comparing by prefix whether or not the suffix ".*" was cut.
IsChangedByPrefix(chg, item) ==
    LET wild == HasStarSuffix(item)
        pfx == IF wild THEN SubSeq(item, 1, Len(item) - 2) \o <<".">> ELSE item
    IN  \E k \in 1..Len(chg) : chg[k] = <<"*">> \/ HasPrefix(chg[k], pfx)

\* IsChanged(item) (control.go:101-117) over the slice chg.
IsChangedIn(chg, item) ==
    LET wild == HasStarSuffix(item)
        pfx == IF wild THEN SubSeq(item, 1, Len(item) - 2) \o <<".">> ELSE item
        op(e) == IF wild THEN HasPrefix(e, pfx) ELSE item = e
    IN  \E k \in 1..Len(chg) : chg[k] = <<"*">> \/ op(chg[k])

IsChanged(item) == IsChangedIn(changed, item)

\* The paths IsChanged is asked about: the leaves, their ancestors, a name
\* that extends a leaf's ("b.0.cx"), one that no leaf has, "*" and "".
Paths == { <<"a">>, <<"b">>, <<"b", ".", "0">>, <<"b", ".", "0", ".", "c">>,
           <<"b", ".", "0", ".", "c", "x">>, <<"b", "d">>, <<"z">>, <<"*">>,
           <<>> }

\* The arguments given to IsChanged: each path, and each path with ".*".
Queries == Paths \cup { p \o <<".", "*">> : p \in Paths }

-----------------------------------------------------------------------------
(* Notifier (notify.go).                                                   *)

\* The error consumer c's UpdateConfig returns when it fails.
ErrOf(c) == <<"update failed", c>>

\* Whether the configuration value itself implements Updateable
\* (notify.go:61): here the values of the second configuration type do.
IsUpdateable(cfg) == cfg.type = "Other"

\* The position in svcs of the first consumer whose UpdateConfig fails
\* (those in bad fail), 0 if none does (notify.go:64-68).
RECURSIVE FirstFailure(_, _, _)
FirstFailure(svcs, bad, n) ==
    IF n > Len(svcs) THEN 0
    ELSE IF svcs[n] \in bad THEN n
    ELSE FirstFailure(svcs, bad, n + 1)

\* Dispatched with the loop not stopped by an error.
DispatchedAll(svcs, bad) == svcs

\* The consumers whose UpdateConfig one Notify() invokes, in call order
\* (notify.go:64-77): the loop returns at the first error.
Dispatched(svcs, bad) ==
    LET f == FirstFailure(svcs, bad, 1)
    IN  IF f = 0 THEN svcs ELSE SubSeq(svcs, 1, f)

\* The value Notify() returns (notify.go:76, 79).
NotifyRet(svcs, bad) ==
    LET f == FirstFailure(svcs, bad, 1)
    IN  IF f = 0 THEN NoErr ELSE ErrOf(svcs[f])

\* AbortCalls with notif.wantdown not consulted.
AbortCallsUnlatched(abrt, wd, err) ==
    IF err = NoErr \/ Len(abrt) = 0 THEN <<>>
    ELSE << <<abrt[1], err>> >>

\* The Abort calls one Notify() makes, as <<aborter, error>> in call order
\* (notify.go:69-75): the return statement inside the loop over the aborters
\* ends Notify after the first of them.
AbortCalls(abrt, wd, err) ==
    IF err = NoErr \/ wd \/ Len(abrt) = 0 THEN <<>>
    ELSE << <<abrt[1], err>> >>

\* Notifier.wantdown after Notify() (notify.go:69-70).
WantdownAfter(wd, err) == wd \/ err # NoErr

\* The record of an operation that did nothing observable.
\* op: the operation; arg: the number of entries a registration appended;
\* failing: the consumers whose UpdateConfig fails when invoked; updated: the
\* consumers whose UpdateConfig was invoked, in call order; cfgSelf: whether the
\* configuration's own UpdateConfig was invoked; aborted: the Abort calls made;
\* ret: the value returned; reloaded: whether readConfig was called, and
\* loadRet what it returned; added: whether watcher.Add succeeded, and
\* attempt the number of that re-add attempt; query: the argument of
\* IsChanged, and answer what it returned.
Quiet == [op |-> "none", arg |-> 0, failing |-> {}, updated |-> <<>>,
          cfgSelf |-> FALSE, aborted |-> <<>>, ret |-> NoErr,
          reloaded |-> FALSE, loadRet |-> NoErr, added |-> FALSE,
          attempt |-> -1, query |-> <<>>, answer |-> FALSE]

\* What Notify() does on configuration cfg when the consumers in bad fail,
\* as fields of `last`.
NotifyRecord(op, cfg, bad) ==
    LET err == NotifyRet(services, bad)
    IN  [Quiet EXCEPT !.op = op,
                      !.failing = bad,
                      !.updated = Dispatched(services, bad),
                      !.cfgSelf = IsUpdateable(cfg),
                      !.aborted = AbortCalls(aborters, wantdown, err),
                      !.ret = err]

\* The ids of the n entries appended to a registry of length len.
Fresh(len, n) == [k \in 1..n |-> len + k]

\* The set of the elements of a sequence.
Range(s) == { s[k] : k \in 1..Len(s) }

\* RegisterServices(svc...) (notify.go:46-48) with n new services.
RegisterServices(n) ==
    /\ Len(services) + n <= MaxServices
    /\ services' = services \o Fresh(Len(services), n)
    /\ last' = [Quiet EXCEPT !.op = "RegisterServices", !.arg = n]
    /\ UNCHANGED <<aborters, wantdown, hist, ctrlVars, watchVars, concVars>>

\* RegisterAborters(svc...) (notify.go:51-53) with n new aborters.
RegisterAborters(n) ==
    /\ Len(aborters) + n <= MaxAborters
    /\ aborters' = aborters \o Fresh(Len(aborters), n)
    /\ last' = [Quiet EXCEPT !.op = "RegisterAborters", !.arg = n]
    /\ UNCHANGED <<services, wantdown, hist, ctrlVars, watchVars, concVars>>

\* The history after a Notify() described by record r.
HistAfter(r) ==
    [notified |-> TRUE, aborts |-> hist.aborts \o r.aborted]

\* Notify() called by the application (notify.go:60-80).
Notify ==
    \E bad \in SUBSET Range(services) :
        LET r == NotifyRecord("Notify", current, bad)
        IN  /\ last' = r
            /\ wantdown' = WantdownAfter(wantdown, r.ret)
            /\ hist' = HistAfter(r)
            /\ UNCHANGED <<services, aborters, ctrlVars, watchVars, concVars>>

-----------------------------------------------------------------------------
(* The watch loop (notify.go:82-168).                                      *)

BaseDelay == 500
RetryCeiling == 10

RECURSIVE Pow(_, _)
Pow(b, n) == IF n = 0 THEN 1 ELSE b * Pow(b, n - 1)

\* int64(math.Pow(1.5, attempt)) (notify.go:155): 1.5^attempt = 3^attempt /
\* 2^attempt, truncated toward zero by the conversion to int64.
Multiplier(attempt) == Pow(3, attempt) \div Pow(2, attempt)

\* delay of readdWatcher(attempt), in milliseconds (notify.go:153-155).
Delay(attempt) == BaseDelay * Multiplier(attempt)

\* Whether the closure of readdWatcher(attempt) schedules another retry when
\* its watcher.Add failed (notify.go:159-165).
Reschedules(attempt) == ~(attempt > RetryCeiling)

\* The pending AfterFunc calls after the closure of readdWatcher(attempt) ran
\* with tm pending and watcher.Add succeeding (ok) or not (notify.go:157-167).
TimersAfter(tm, attempt, ok) ==
    IF ok \/ ~Reschedules(attempt) THEN tm
    ELSE tm \cup { [attempt |-> attempt + 1, delay |-> Delay(attempt)] }

\* The results watcher.Add can have: it fails on a closed watcher.
AddResults == IF watcher = "open" THEN BOOLEAN ELSE {FALSE}

\* Watch() (notify.go:90-104): fsnotify.NewWatcher and watcher.Add each
\* succeed or fail; the loop is started when both succeed.
Watch ==
    /\ watcher = "nil"
    /\ \E made \in BOOLEAN, ok \in BOOLEAN :
        /\ watcher' = IF made THEN "open" ELSE "nil"
        /\ looping' = (made /\ ok)
        /\ last' = [Quiet EXCEPT !.op = "Watch",
                      !.ret = IF ~made THEN <<"setting up new watcher for config", 0>>
                              ELSE IF ~ok THEN <<"adding config file name to watcher", 0>>
                              ELSE NoErr]
    /\ UNCHANGED <<events, ctxDone, streams, timers, hist,
                   ctrlVars, notifVars, concVars>>

EventKinds == {"write", "remove", "chmod"}

\* fsnotify puts an event on watcher.Events.
FsEvent ==
    /\ watcher = "open"
    /\ streams \in {"open", "errors closed"}
    /\ Len(events) < MaxEvents
    /\ \E k \in EventKinds : events' = Append(events, k)
    /\ UNCHANGED <<watcher, looping, ctxDone, streams, timers, last, hist,
                   ctrlVars, notifVars, concVars>>

\* readConfig() followed by Notify(), the tail of modify and of replace
\* (notify.go:136-139, 146-149).
ReloadAndNotify(op, ld, bad, ok) ==
    LET rc == ReadConfigResult(CtrlState, ld)
        r == [NotifyRecord(op, rc.current, bad) EXCEPT
                 !.reloaded = TRUE, !.loadRet = rc.ret,
                 !.added = ok, !.attempt = IF op = "replace" THEN 0 ELSE -1]
    IN  /\ current' = rc.current
        /\ previous' = rc.previous
        /\ changed' = rc.changed
        /\ loader' = loader
        /\ last' = r
        /\ wantdown' = WantdownAfter(wantdown, r.ret)
        /\ hist' = HistAfter(r)

\* modify(event) (notify.go:134-140), for a Write event (notify.go:118-119).
Modify ==
    /\ looping
    /\ streams \in {"open", "errors closed"}
    /\ Len(events) > 0
    /\ Head(events) = "write"
    /\ events' = Tail(events)
    /\ \E ld \in Loads, bad \in SUBSET Range(services) :
        ReloadAndNotify("modify", ld, bad, FALSE)
    /\ UNCHANGED <<services, aborters, watcher, looping, ctxDone, streams,
                   timers, concVars>>

\* replace(event) (notify.go:142-150), for a Remove event (notify.go:120-121):
\* re-add attempt 0, then readConfig and Notify.
Replace ==
    /\ looping
    /\ streams \in {"open", "errors closed"}
    /\ Len(events) > 0
    /\ Head(events) = "remove"
    /\ events' = Tail(events)
    /\ \E ok \in AddResults, ld \in Loads, bad \in SUBSET Range(services) :
        /\ ok \/ Cardinality(timers) < MaxTimers
        /\ timers' = TimersAfter(timers, 0, ok)
        /\ ReloadAndNotify("replace", ld, bad, ok)
    /\ UNCHANGED <<services, aborters, watcher, looping, ctxDone, streams,
                   concVars>>

\* An event that is neither Write nor Remove is dropped (notify.go:118-122).
Ignore ==
    /\ looping
    /\ streams \in {"open", "errors closed"}
    /\ Len(events) > 0
    /\ Head(events) \notin {"write", "remove"}
    /\ events' = Tail(events)
    /\ last' = [Quiet EXCEPT !.op = "ignore"]
    /\ UNCHANGED <<watcher, looping, ctxDone, streams, timers, hist,
                   ctrlVars, notifVars, concVars>>

\* A deferred retry fires: the closure of readdWatcher(t.attempt) runs
\* (notify.go:157-167, scheduled at notify.go:165).
Retry ==
    \E t \in timers, ok \in AddResults :
        /\ timers' = TimersAfter(timers \ {t}, t.attempt, ok)
        /\ last' = [Quiet EXCEPT !.op = "retry", !.added = ok,
                                 !.attempt = t.attempt]
        /\ UNCHANGED <<watcher, looping, events, ctxDone, streams, hist,
                       ctrlVars, notifVars, concVars>>

\* An error arrives on watcher.Errors and is logged (notify.go:123-127).
WatchError ==
    /\ looping
    /\ streams \in {"open", "events closed"}
    /\ last' = [Quiet EXCEPT !.op = "fsnotify error"]
    /\ UNCHANGED <<watchVars, hist, ctrlVars, notifVars, concVars>>

\* The application cancels the context given to NewNotifier.
Cancel ==
    /\ ~ctxDone
    /\ ctxDone' = TRUE
    /\ UNCHANGED <<watcher, looping, events, streams, timers, last, hist,
                   ctrlVars, notifVars, concVars>>

\* fsnotify closes watcher.Events (which drops what was pending on it) or
\* watcher.Errors.
CloseStream ==
    /\ watcher = "open"
    /\ streams = "open"
    /\ \E which \in {"events closed", "errors closed"} :
        /\ streams' = which
        /\ events' = IF which = "events closed" THEN <<>> ELSE events
    /\ UNCHANGED <<watcher, looping, ctxDone, timers, last, hist,
                   ctrlVars, notifVars, concVars>>

\* ExitReady with the ctx.Done() case left out of the select.
ExitReadyNoCancel == streams # "open"

\* Whether a case of the select that returns is ready: watcher.Events is
\* closed (notify.go:114-117), watcher.Errors is closed (notify.go:123-126)
\* or the context is canceled (notify.go:128-129).
ExitReady == streams # "open" \/ ctxDone

\* The loop returns and the deferred function closes the watcher
\* (notify.go:107-110), which closes both streams.
WatchExit ==
    /\ looping
    /\ ExitReady
    /\ looping' = FALSE
    /\ watcher' = "closed"
    /\ streams' = "closed"
    /\ events' = <<>>
    /\ last' = [Quiet EXCEPT !.op = "watcher finished"]
    /\ UNCHANGED <<ctxDone, timers, hist, ctrlVars, notifVars, concVars>>

\* readConfig() called directly, as the package's test does (control.go:228).
ReadConfig ==
    \E ld \in Loads :
        LET rc == ReadConfigResult(CtrlState, ld)
        IN  /\ current' = rc.current
            /\ previous' = rc.previous
            /\ changed' = rc.changed
            /\ last' = [Quiet EXCEPT !.op = "readConfig", !.reloaded = TRUE,
                                     !.loadRet = rc.ret, !.ret = rc.ret]
            /\ UNCHANGED <<loader, hist, notifVars, watchVars, concVars>>

\* IsChanged(q) called by the application (control.go:101-117).
IsChangedCall ==
    \E q \in Queries :
        /\ last' = [Quiet EXCEPT !.op = "IsChanged", !.query = q,
                                 !.answer = IsChanged(q)]
        /\ UNCHANGED <<hist, ctrlVars, notifVars, watchVars, concVars>>

-----------------------------------------------------------------------------
(* readConfig statement by statement (control.go:46-81), run by two        *)
(* goroutines: the application's and the watch loop's (notify.go:136).     *)

Procs == {"caller", "watch"}

NotSeen == "not seen"

\* The locals of a goroutine that is not in Notify.
NoFrame == [svcs |-> <<>>, i |-> 0, err |-> NoErr]

\* CanLock with the mutex left out.
CanLockAlways == TRUE

\* Whether ctrl.lock.Lock() can return (control.go:47).
CanLock == ~locked

Goto(p, label) == pc' = [pc EXCEPT ![p] = label]

\* control.go:47
Lock(p) ==
    /\ pc[p] = "idle"
    /\ CanLock
    /\ locked' = TRUE
    /\ entry' = CtrlState
    /\ seen' = NotSeen
    /\ Goto(p, "load")
    /\ UNCHANGED <<ctrlVars, loaded, changelog, base, rounds, frame,
                   notifVars, watchVars, last, hist>>

\* control.go:50-53
Load(p) ==
    /\ pc[p] = "load"
    /\ \E ld \in Loads :
        /\ loaded' = [loaded EXCEPT ![p] = ld]
        /\ Goto(p, IF ld.err THEN "unlock" ELSE "setprev")
    /\ UNCHANGED <<ctrlVars, locked, changelog, seen, entry, base, rounds, frame,
                   notifVars, watchVars, last, hist>>

\* control.go:55
SetPrevious(p) ==
    /\ pc[p] = "setprev"
    /\ previous' = current
    /\ Goto(p, "setcur")
    /\ UNCHANGED <<current, changed, loader, locked, loaded, changelog, seen,
                   entry, base, rounds, frame, notifVars, watchVars, last, hist>>

\* control.go:56
SetCurrent(p) ==
    /\ pc[p] = "setcur"
    /\ current' = loaded[p].config
    /\ Goto(p, "first")
    /\ UNCHANGED <<previous, changed, loader, locked, loaded, changelog, seen,
                   entry, base, rounds, frame, notifVars, watchVars, last, hist>>

\* control.go:58-61
FirstLoad(p) ==
    /\ pc[p] = "first"
    /\ IF previous = Nil
       THEN changed' = Star /\ Goto(p, "unlock")
       ELSE changed' = changed /\ Goto(p, "diff")
    /\ UNCHANGED <<current, previous, loader, locked, loaded, changelog, seen,
                   entry, base, rounds, frame, notifVars, watchVars, last, hist>>

\* control.go:63-74: the diff, and the ChangeSet emptied when the diff is
\* empty (control.go:70) or about to be filled (control.go:74).
DiffStep(p) ==
    /\ pc[p] = "diff"
    /\ LET d == Diff(previous, current)
       IN  IF d.err
           THEN /\ UNCHANGED <<changed, changelog>>
                /\ Goto(p, "unlock")
           ELSE IF Len(d.log) < 1
           THEN /\ changed' = <<>>
                /\ UNCHANGED changelog
                /\ Goto(p, "unlock")
           ELSE /\ changed' = <<>>
                /\ changelog' = [changelog EXCEPT ![p] = d.log]
                /\ Goto(p, "append")
    /\ UNCHANGED <<current, previous, loader, locked, loaded, seen,
                   entry, base, rounds, frame, notifVars, watchVars, last, hist>>

\* control.go:75-77: one iteration of the loop over the changelog.
AppendStep(p) ==
    /\ pc[p] = "append"
    /\ changed' = Append(changed, Join(Head(changelog[p])))
    /\ changelog' = [changelog EXCEPT ![p] = Tail(changelog[p])]
    /\ Goto(p, IF Len(changelog[p]) = 1 THEN "unlock" ELSE "append")
    /\ UNCHANGED <<current, previous, loader, locked, loaded, seen,
                   entry, base, rounds, frame, notifVars, watchVars, last, hist>>

\* control.go:48: the deferred Unlock.
Unlock(p) ==
    /\ pc[p] = "unlock"
    /\ locked' = FALSE
    /\ Goto(p, "done")
    /\ UNCHANGED <<ctrlVars, loaded, changelog, seen, entry, base, rounds, frame,
                   notifVars, watchVars, last, hist>>

\* IsChanged on another goroutine evaluates ctrl.changed for its range loop
\* (control.go:107) while a readConfig is running; it takes no lock.
Observe ==
    /\ \E p \in Procs : pc[p] \notin {"idle", "done"}
    /\ seen' = changed
    /\ UNCHANGED <<ctrlVars, locked, pc, loaded, changelog, entry, base, rounds, frame,
                   notifVars, watchVars, last, hist>>

\* Both readConfig calls have returned; the two goroutines call it again.
NextRound ==
    /\ \A p \in Procs : pc[p] = "done"
    /\ rounds < MaxRounds
    /\ rounds' = rounds + 1
    /\ base' = CtrlState
    /\ pc' = [p \in Procs |-> "idle"]
    /\ UNCHANGED <<ctrlVars, locked, loaded, changelog, seen, entry, frame,
                   notifVars, watchVars, last, hist>>

-----------------------------------------------------------------------------
(* Notify statement by statement (notify.go:60-80), run by two goroutines: *)
(* the application's and the watch loop's (notify.go:139, 149).  Notify     *)
(* takes no lock.                                                          *)

\* notify.go:64: the range expression notif.services is evaluated once.
NotifyCall(p) ==
    /\ pc[p] = "idle"
    /\ frame' = [frame EXCEPT ![p] = [svcs |-> services, i |-> 1, err |-> NoErr]]
    /\ Goto(p, "update")
    /\ UNCHANGED <<ctrlVars, notifVars, watchVars, last, hist,
                   locked, loaded, changelog, seen, entry, base, rounds>>

\* notify.go:64-68: one iteration of the loop over the services, whose
\* UpdateConfig fails or not; after the last one Notify returns nil
\* (notify.go:79).
UpdateStep(p) ==
    /\ pc[p] = "update"
    /\ IF frame[p].i > Len(frame[p].svcs)
       THEN /\ Goto(p, "done")
            /\ hist' = [hist EXCEPT !.notified = TRUE]
            /\ UNCHANGED frame
       ELSE /\ \E fails \in BOOLEAN :
                IF fails
                THEN /\ frame' = [frame EXCEPT
                                    ![p].err = ErrOf(frame[p].svcs[frame[p].i])]
                     /\ Goto(p, "check")
                ELSE /\ frame' = [frame EXCEPT ![p].i = frame[p].i + 1]
                     /\ Goto(p, "update")
            /\ UNCHANGED hist
    /\ UNCHANGED <<ctrlVars, notifVars, watchVars, last,
                   locked, loaded, changelog, seen, entry, base, rounds>>

\* notify.go:69: notif.wantdown is read; when set, Notify returns err
\* (notify.go:76).
CheckWantdown(p) ==
    /\ pc[p] = "check"
    /\ IF wantdown
       THEN /\ Goto(p, "done")
            /\ hist' = [hist EXCEPT !.notified = TRUE]
       ELSE /\ Goto(p, "set")
            /\ UNCHANGED hist
    /\ UNCHANGED <<ctrlVars, notifVars, watchVars, last, frame,
                   locked, loaded, changelog, seen, entry, base, rounds>>

\* notify.go:70
SetWantdown(p) ==
    /\ pc[p] = "set"
    /\ wantdown' = TRUE
    /\ Goto(p, "abort")
    /\ UNCHANGED <<ctrlVars, services, aborters, watchVars, last, hist, frame,
                   locked, loaded, changelog, seen, entry, base, rounds>>

\* notify.go:71-76: the Abort calls, then return err.
AbortStep(p) ==
    /\ pc[p] = "abort"
    /\ hist' = [notified |-> TRUE,
                aborts |-> hist.aborts
                             \o AbortCalls(aborters, FALSE, frame[p].err)]
    /\ Goto(p, "done")
    /\ UNCHANGED <<ctrlVars, notifVars, watchVars, last, frame,
                   locked, loaded, changelog, seen, entry, base, rounds>>

-----------------------------------------------------------------------------
(* The program with every handler run to completion.                       *)

\* New(loader, logger) succeeded with configuration c (control.go:26-44)
\* for a loader that can produce the configurations in L, then NewNotifier
\* (notify.go:37-43).
InitWith(c, L) ==
    /\ current = ReadConfigResult(Zero, Ok(c)).current
    /\ previous = ReadConfigResult(Zero, Ok(c)).previous
    /\ changed = ReadConfigResult(Zero, Ok(c)).changed
    /\ loader = L
    /\ locked = FALSE
    /\ services = <<>>
    /\ aborters = <<>>
    /\ wantdown = FALSE
    /\ watcher = "nil"
    /\ looping = FALSE
    /\ events = <<>>
    /\ ctxDone = FALSE
    /\ streams = "open"
    /\ timers = {}
    /\ last = Quiet
    /\ hist = [notified |-> FALSE, aborts |-> <<>>]
    /\ pc = [p \in Procs |-> "idle"]
    /\ loaded = [p \in Procs |-> [err |-> TRUE, config |-> Nil]]
    /\ changelog = [p \in Procs |-> <<>>]
    /\ seen = NotSeen
    /\ entry = ReadConfigResult(Zero, Ok(c))
    /\ base = ReadConfigResult(Zero, Ok(c))
    /\ rounds = 0
    /\ frame = [p \in Procs |-> NoFrame]

\* A configuration file with two versions that differ in two leaves.
TwoVersions == { [type |-> "Config", val |-> <<0, 0, 0>>],
                 [type |-> "Config", val |-> <<1, 0, 1>>] }

\* The Notifier and its watch loop, over a file with two versions, with
\* services registered and no aborter.
Init == \E c \in TwoVersions : InitWith(c, TwoVersions)

Next ==
    \/ \E n \in 1..2 : RegisterServices(n)
    \/ Notify
    \/ Watch
    \/ FsEvent
    \/ Modify
    \/ Replace
    \/ Ignore
    \/ Retry
    \/ WatchError
    \/ Cancel
    \/ CloseStream
    \/ WatchExit

Spec == Init /\ [][Next]_vars

\* The Control alone, over every configuration.
InitCtrl == \E c \in Configs : InitWith(c, Configs)

NextCtrl == ReadConfig \/ IsChangedCall

SpecCtrl == InitCtrl /\ [][NextCtrl]_vars

\* Registration and explicit Notify() calls, the configuration left alone.
InitNotify == \E c \in Configs : InitWith(c, {c})

NextNotify ==
    \/ \E n \in 1..2 : RegisterServices(n)
    \/ \E n \in 1..2 : RegisterAborters(n)
    \/ Notify

SpecNotify == InitNotify /\ [][NextNotify]_vars

\* Two goroutines in readConfig and a third in IsChanged.  No service is
\* registered, so the Notify() that follows the watch loop's readConfig
\* calls nobody.
InitConc == \E c \in TwoVersions \cup {[type |-> "Other", val |-> <<0, 0, 0>>]} :
                InitWith(c, TwoVersions \cup {[type |-> "Other", val |-> <<0, 0, 0>>]})

NextConc ==
    \/ \E p \in Procs : Lock(p)
    \/ \E p \in Procs : Load(p)
    \/ \E p \in Procs : SetPrevious(p)
    \/ \E p \in Procs : SetCurrent(p)
    \/ \E p \in Procs : FirstLoad(p)
    \/ \E p \in Procs : DiffStep(p)
    \/ \E p \in Procs : AppendStep(p)
    \/ \E p \in Procs : Unlock(p)
    \/ Observe
    \/ NextRound

SpecConc == InitConc /\ [][NextConc]_vars

\* The watch loop over a file that keeps one version.  The select of
\* notify.go:113 chooses among its ready cases at random, so a case that
\* stays ready (a closed stream, a canceled context) is eventually taken.
InitLoop == InitWith([type |-> "Config", val |-> <<0, 0, 0>>],
                     {[type |-> "Config", val |-> <<0, 0, 0>>]})

NextLoop ==
    \/ RegisterServices(1)
    \/ Watch
    \/ FsEvent
    \/ Modify
    \/ Replace
    \/ Ignore
    \/ Retry
    \/ WatchError
    \/ Cancel
    \/ CloseStream
    \/ WatchExit

SpecLoop == InitLoop /\ [][NextLoop]_vars /\ WF_vars(WatchExit)

\* One configuration, explicit Notify() calls and the Notify() calls of the
\* watch loop, one after another, with aborters registered.
InitAbort == InitWith([type |-> "Config", val |-> <<0, 0, 0>>],
                      {[type |-> "Config", val |-> <<0, 0, 0>>]})

NextAbort ==
    \/ \E n \in 1..2 : RegisterServices(n)
    \/ \E n \in 1..2 : RegisterAborters(n)
    \/ Notify
    \/ Watch
    \/ FsEvent
    \/ Modify
    \/ Ignore

SpecAbort == InitAbort /\ [][NextAbort]_vars

\* An explicit Notify() and the Notify() of the watch loop's modify, each
\* called once and run concurrently.
InitRace == InitWith([type |-> "Config", val |-> <<0, 0, 0>>],
                     {[type |-> "Config", val |-> <<0, 0, 0>>]})

NextRace ==
    \/ RegisterServices(1)
    \/ RegisterAborters(1)
    \/ \E p \in Procs : NotifyCall(p)
    \/ \E p \in Procs : UpdateStep(p)
    \/ \E p \in Procs : CheckWantdown(p)
    \/ \E p \in Procs : SetWantdown(p)
    \/ \E p \in Procs : AbortStep(p)

SpecRace == InitRace /\ [][NextRace]_vars

-----------------------------------------------------------------------------
(* Properties.                                                             *)

\* C1: when a consumer's UpdateConfig fails during Notify() and no abort was
\* initiated before, every registered aborter receives exactly one Abort
\* call with that consumer's error, in registration order.
C1_EveryAborterCalled ==
    [][ (last'.op = "Notify" /\ last'.ret # NoErr /\ ~wantdown)
        => last'.aborted = [k \in 1..Len(aborters) |-> <<aborters[k], last'.ret>>]
      ]_vars

\* C2: Notify() invokes the registered consumers one after another in
\* registration order up to and including the first one that fails, and
\* returns that one's error; when none fails it invokes each exactly once
\* and returns no error.
C2_SequentialShortCircuit ==
    last.op = "Notify" =>
        LET failures == { k \in 1..Len(services) : services[k] \in last.failing }
        IN  IF failures = {}
            THEN /\ last.updated = services
                 /\ last.ret = NoErr
            ELSE LET n == CHOOSE k \in failures : \A j \in failures : k <= j
                 IN  /\ last.updated = [k \in 1..n |-> services[k]]
                     /\ last.ret = ErrOf(services[n])

\* C2, witness: with two consumers registered of which the first fails,
\* Notify() has invoked the first only.
C2_Witness ==
    /\ last.op = "Notify"
    /\ Len(services) = 2
    /\ services[1] \in last.failing
    /\ last.updated = <<services[1]>>
    /\ last.ret = ErrOf(services[1])

\* C3: once Notify() has completed, RegisterServices invokes UpdateConfig on
\* each newly registered consumer and on no other; before that, it invokes
\* no consumer.
C3_BackfillOnRegister ==
    last.op = "RegisterServices" =>
        last.updated =
            IF hist.notified
            THEN SubSeq(services, Len(services) - last.arg + 1, Len(services))
            ELSE <<>>

\* C4: a watch-loop reload that produced an empty ChangeSet is followed by
\* no UpdateConfig call for that event.
C4_NoDispatchWhenUnchanged ==
    (last.op \in {"modify", "replace"} /\ last.loadRet = NoErr /\ changed = <<>>)
        => last.updated = <<>>

\* C5: the ChangeSet is the diff of the (previous, current) pair of the most
\* recent successful reload: "*" after the first load, empty for an
\* identical pair, otherwise the dotted paths of the differing leaves (not
\* empty, whatever the pair).
C5_ChangeSetReflectsPair ==
    IF previous = Nil THEN changed = Star
    ELSE IF previous = current THEN changed = <<>>
    ELSE IF previous.type = current.type
    THEN LET differing == { i \in LeafIdx : previous.val[i] # current.val[i] }
         IN  /\ Len(changed) = Cardinality(differing)
             /\ \A k \in 1..Len(changed) :
                    \E i \in differing :
                        /\ changed[k] = Join(Leaves[i])
                        /\ Cardinality({ j \in differing : j < i }) = k - 1
    ELSE changed # <<>>

\* C6: an IsChanged running concurrently with a readConfig ranges over the
\* complete ChangeSet from before that readConfig or the complete one after
\* it, never over an intermediate list.
C6_NeverPartial ==
    (~locked /\ seen # NotSeen) => seen \in {entry.changed, changed}

\* C7: concurrent readConfig calls exclude each other, and after both have
\* returned, current, previous and the ChangeSet are what the two calls
\* produce when run one after the other in one of the two orders.
C7_ReloadsSerialized ==
    /\ Cardinality({ p \in Procs : pc[p] \notin {"idle", "done"} }) <= 1
    /\ (\A p \in Procs : pc[p] = "done") =>
           \E a \in Procs : \E b \in Procs \ {a} :
               LET r == ReadConfigResult(ReadConfigResult(base, loaded[a]),
                                         loaded[b])
               IN  /\ current = r.current
                   /\ previous = r.previous
                   /\ changed = r.changed

\* C7, witness: both goroutines have reloaded, with different configurations
\* loaded, so that the order of the two reloads shows in the result.
C7_Witness ==
    /\ \A p \in Procs : pc[p] = "done" /\ ~loaded[p].err
    /\ loaded["caller"].config # loaded["watch"].config
    /\ previous \in {loaded["caller"].config, loaded["watch"].config}
    /\ previous # current
    /\ rounds = MaxRounds

\* C8: a re-add of the watched file that succeeds, at attempt 0 or at a
\* deferred retry, is followed by a reload (and the notification).
C8_ReloadAfterReadd ==
    (last.op \in {"replace", "retry"} /\ last.added) => last.reloaded

\* C9: the re-add attempts after a remove event are numbered 0 through 10:
\* none with a higher number is made or scheduled.
C9_ElevenAttempts ==
    /\ last.op \in {"replace", "retry"} => last.attempt <= RetryCeiling
    /\ \A t \in timers : t.attempt <= RetryCeiling

\* C10: the delay scheduled after failed attempt n is 500ms * 1.5^n, that
\* is delay * 2^n = 500 * 3^n in milliseconds.
C10_DelayFormula ==
    \A t \in timers :
        LET n == t.attempt - 1
        IN  t.delay * Pow(2, n) = BaseDelay * Pow(3, n)

\* C11: the watch loop ends only when the event stream or the error stream
\* is closed or the context is canceled, it closes the watcher when it
\* ends, and once one of the three has happened it eventually ends.
C11_LoopTermination ==
    /\ [][ (looping /\ ~looping')
           => /\ (ctxDone \/ streams \in {"events closed", "errors closed"})
              /\ watcher' = "closed" ]_vars
    /\ (looping /\ (ctxDone \/ streams \in {"events closed", "errors closed"}))
           ~> (~looping /\ watcher = "closed")

\* C11, witness: the loop has ended on a closed stream, the context not
\* canceled, after a consumer failed in the loop.
C11_Witness ==
    /\ last.op = "watcher finished"
    /\ ~looping
    /\ watcher = "closed"
    /\ ~ctxDone
    /\ wantdown

\* C12: once the context is canceled the watch loop takes no event off the
\* event stream to reload or notify: a step of the running loop that
\* consumes a pending event after the cancellation calls neither readConfig
\* nor any consumer.
C12_NoEventAfterCancel ==
    [][ (ctxDone /\ looping /\ looping' /\ streams' = streams
             /\ Len(events') < Len(events))
        => (~last'.reloaded /\ last'.updated = <<>>) ]_vars

\* C20: when the readConfig of a modify or remove event fails to load, no
\* consumer's UpdateConfig is invoked for that event.
C20_NotifyOnlyAfterLoad ==
    (last.op \in {"modify", "replace"} /\ last.loadRet = ErrLoad)
        => last.updated = <<>>

\* C13: right after New (one successful load, no later successful reload),
\* IsChanged is true for every argument: "*", every path, every wildcard.
C13_AllChangedAfterNew ==
    previous = Nil =>
        /\ \A q \in Queries : IsChanged(q)
        /\ last.op = "IsChanged" => last.answer

\* C13, witness: IsChanged was asked a wildcard of a path no leaf has, right
\* after New, and answered true.
C13_Witness ==
    /\ previous = Nil
    /\ current # Nil
    /\ last.op = "IsChanged"
    /\ last.query = <<"z", ".", "*">>
    /\ last.answer

\* C14: after the reload of a configuration identical to the one before it,
\* the ChangeSet is empty and IsChanged is false for every argument.
C14_IdenticalMeansNothingChanged ==
    (previous # Nil /\ previous = current) =>
        /\ changed = <<>>
        /\ \A q \in Queries : ~IsChanged(q)
        /\ last.op = "IsChanged" => ~last.answer

\* C14, witness: IsChanged("*") answered false after an identical reload.
C14_Witness ==
    /\ previous # Nil
    /\ previous = current
    /\ last.op = "IsChanged"
    /\ last.query = <<"*">>
    /\ ~last.answer

\* Whether string e starts with string x, by splitting e.
StartsWith(e, x) == \E k \in 0..Len(e) : SubSeq(e, 1, k) = x

\* Whether the ChangeSet has an entry p.child for some child.
HasChildOf(p) ==
    \E k \in 1..Len(changed) :
        \E n \in 1..Len(changed[k]) :
            changed[k] = p \o <<".">>
                           \o SubSeq(changed[k], Len(changed[k]) - n + 1,
                                     Len(changed[k]))

\* Whether some entry of the ChangeSet starts with p + ".".
SomeEntryUnder(p) ==
    \E k \in 1..Len(changed) : StartsWith(changed[k], p \o <<".">>)

\* C15 as stated: IsChanged(p + ".*") is true when the ChangeSet has an
\* entry p.child, and false when no entry starts with p + ".".
C15_WildcardAsStated ==
    \A p \in Paths :
        /\ HasChildOf(p) => IsChanged(p \o <<".", "*">>)
        /\ ~SomeEntryUnder(p) => ~IsChanged(p \o <<".", "*">>)

\* C15: IsChanged(p + ".*") is true when the ChangeSet has an entry
\* p.child, and false when no entry starts with p + "." and none is "*".
C15_WildcardOnSegments ==
    /\ \A p \in Paths :
        /\ HasChildOf(p) => IsChanged(p \o <<".", "*">>)
        /\ (~SomeEntryUnder(p) /\ \A k \in 1..Len(changed) : changed[k] # <<"*">>)
               => ~IsChanged(p \o <<".", "*">>)
    /\ (last.op = "IsChanged" /\ HasStarSuffix(last.query))
           => last.answer = IsChanged(last.query)

\* C15, witness: with only "bd" changed, IsChanged("b.*") answered false.
C15_Witness ==
    /\ changed = << <<"b", "d">> >>
    /\ last.op = "IsChanged"
    /\ last.query = <<"b", ".", "*">>
    /\ ~last.answer

\* The segment-wise proper prefixes of path segs, each joined with ".".
Ancestors(segs) == { Join(SubSeq(segs, 1, n)) : n \in 1..(Len(segs) - 1) }

C17_FailedLoadChangesNothing ==
    [][ (last'.op = "readConfig" /\ last'.loadRet = ErrLoad)
        => /\ last'.ret = ErrLoad
           /\ current' = current
           /\ previous' = previous
           /\ changed' = changed
           /\ \A q \in Queries :
                  IsChangedIn(changed', q) = IsChangedIn(changed, q) ]_vars

\* C17, witness: a load failed after a reload that had changed something.
C17_Witness ==
    /\ last.op = "readConfig"
    /\ last.loadRet = ErrLoad
    /\ previous # Nil
    /\ changed # <<>>
    /\ changed # Star

\* The number of Abort calls aborter a has received.
AbortsOf(a) ==
    Cardinality({ k \in 1..Len(hist.aborts) : hist.aborts[k][1] = a })

\* A step in which Notify() runs: called by the application, or by the
\* watch loop for an event it takes off the event stream.
NotifyRuns ==
    \/ last'.op = "Notify" /\ UNCHANGED watchVars
    \/ /\ last'.op \in {"modify", "replace"}
       /\ looping /\ streams' = streams /\ Len(events') < Len(events)

\* C18: over Notify() calls run one after another, each aborter receives at
\* most one Abort call; once a consumer failure has set the latch no call
\* makes another, and a later failure still ends the call at the failing
\* consumer with its error.
C18_AbortLatched ==
    /\ [](\A a \in Range(aborters) : AbortsOf(a) <= 1)
    /\ [][ wantdown =>
             /\ hist'.aborts = hist.aborts
             /\ (NotifyRuns /\ last'.failing # {})
                 => /\ last'.aborted = <<>>
                    /\ last'.ret # NoErr
                    /\ last'.updated[Len(last'.updated)] \in last'.failing
                    /\ last'.ret = ErrOf(last'.updated[Len(last'.updated)]) ]_vars

\* C18, witness: a consumer failed in the watch loop's Notify() after an
\* earlier failure had called the aborter, and no Abort call was made again.
C18_Witness ==
    /\ wantdown
    /\ last.op = "modify"
    /\ last.ret # NoErr
    /\ last.aborted = <<>>
    /\ Len(aborters) = 2
    /\ Len(hist.aborts) = 1

\* C19: when an explicit Notify() and the watch loop's Notify() run
\* concurrently and a consumer fails in both, the aborters are invoked by
\* one of the two calls only: no aborter receives a second Abort call.
C19_AbortOnceUnderConcurrency ==
    \A a \in Range(aborters) : AbortsOf(a) <= 1

=============================================================================
